---- MODULE Spec2Model ----
(***************************************************************************)
(* Posterior-predictive simulation-and-comparison workflow of the          *)
(* bayes-of-our-lives notebooks: the Discrepancy Evaluator (summary        *)
(* statistics of observed and replicated datasets), the Parameter Sampler  *)
(* (indexing and iterating the extracted traces) and the Replicator (one   *)
(* synthetic dataset per parameter draw).                                  *)
(***************************************************************************)
EXTENDS Integers, Sequences, FiniteSets, TLC

\* ------------------------------------------------------------------ bounds
MaxVal == 1      \* data values are 0..MaxVal
MaxN == 2        \* observations per dataset
MaxB == 3        \* replicated datasets per batch
MaxCalls == 2    \* runs of the summary-statistics cell
MaxDraws == 3    \* parameter draws in the extracted traces
MaxIndex == 5    \* largest index asked of the traces
MaxIter == 2     \* completed iterations over the traces
MaxRows == 2     \* rows of the data frame
MaxK == 1        \* covariates per row
MaxReplDraws == 2 \* parameter draws handed to the replicator
MaxReps == 2     \* replicated datasets produced in one run
MaxTrials == 2   \* binomial trials per row
MaxWorkers == 2  \* workers of the parallel replication
MaxParDraws == 2 \* parameter draws of the batch replicated in parallel
MaxParRows == 1  \* covariate rows of the batch replicated in parallel
MaxFailures == 5 \* elevator failures in a year
MaxPrepaid == 4  \* prepaid service visits
MaxDocs == 3     \* documents of the corpus
MaxClicks == 3   \* button clicks in one session
MaxInstances == 2 \* Recommenderizer objects sharing labels
RngPeriod == 12  \* distinct raw outputs of the random source

Values == 0..MaxVal

\* -------------------------------------------------------------- statistics
NaN == "nan"
ValueError == "ValueError"
IndexError == "IndexError"
EmptyBatch == "EmptyBatch"

Statistics == {"mean", "median", "max"}

RECURSIVE SumSeq(_)
SumSeq(s) == IF s = <<>> THEN 0 ELSE Head(s) + SumSeq(Tail(s))

RECURSIVE MaxSeq(_)
MaxSeq(s) ==
  IF Len(s) = 1 THEN Head(s)
  ELSE LET m == MaxSeq(Tail(s)) IN IF Head(s) >= m THEN Head(s) ELSE m

\* insertion of x into the ascending sequence s
RECURSIVE InsertSorted(_, _)
InsertSorted(x, s) ==
  IF s = <<>> THEN <<x>>
  ELSE IF x <= Head(s) THEN <<x>> \o s
  ELSE <<Head(s)>> \o InsertSorted(x, Tail(s))

RECURSIVE Sorted(_)
Sorted(s) == IF s = <<>> THEN <<>> ELSE InsertSorted(Head(s), Sorted(Tail(s)))

\* a statistic value is NaN or the exact fraction <<numerator, denominator>>
Mean(a) == IF Len(a) = 0 THEN NaN ELSE <<SumSeq(a), Len(a)>>

Median(a) ==
  IF Len(a) = 0 THEN NaN
  ELSE LET s == Sorted(a)
           n == Len(a)
       IN IF n % 2 = 1 THEN <<s[(n + 1) \div 2], 1>>
          ELSE <<s[n \div 2] + s[n \div 2 + 1], 2>>

Max(a) == IF Len(a) = 0 THEN ValueError ELSE <<MaxSeq(a), 1>>

\* the array a after a statistic has read it
ArrayAfterSortInPlace(stat, a) == IF stat = "median" THEN Sorted(a) ELSE a
ArrayAfter(stat, a) == a

\* the value statistic(a)
StatValueFirstOnly(stat, a) ==
  LET h == IF Len(a) = 0 THEN a ELSE <<Head(a)>>
  IN CASE stat = "mean" -> Mean(h)
       [] stat = "median" -> Median(h)
       [] stat = "max" -> Max(h)
StatValue(stat, a) ==
  CASE stat = "mean" -> Mean(a)
    [] stat = "median" -> Median(a)
    [] stat = "max" -> Max(a)

\* comparison a <= b of two statistic values; any comparison with NaN is false
Leq(a, b) == a # NaN /\ b # NaN /\ a[1] * b[2] <= b[1] * a[2]

\* ------------------------------------------------------------------- state
VARIABLES
  log_pm25,      \* observed dataset
  log_pm_rep,    \* batch of replicated datasets, one row per draw
  statistic,     \* the summary statistic of this check
  epc,           \* position in the summary-statistics cell
  observed_stat, \* statistic(observed)
  ppc_stats,     \* statistic of each replicated dataset, in batch order
  ek,            \* loop index of the comprehension
  statCalls,     \* applications of the statistic in the current run
  calls,         \* runs of the cell so far
  prev_result    \* what the previous run of the cell returned

evars == <<log_pm25, log_pm_rep, statistic, epc, observed_stat, ppc_stats, ek,
           statCalls, calls, prev_result>>

VARIABLES
  traces,        \* extracted parameter draws, one column per parameter
  it_state,      \* "none", "running" or "done": the loop over the draws
  it_pos,        \* next value of the range iterator
  it_len,        \* length of the range, fixed when the loop starts
  yielded,       \* draws the running (or last) loop has produced so far
  completed,     \* loops that ran to the end
  first_yield,   \* what the first completed loop produced
  abandoned,     \* whether a loop was left before its end
  last_call      \* outcome of the last indexed read of the traces

svars == <<traces, it_state, it_pos, it_len, yielded, completed, first_yield,
           abandoned, last_call>>

VARIABLES
  family,        \* likelihood family of the model being checked
  engine,        \* "numpy" cell, "stan" generated quantities, or "spec"
  K,             \* number of covariates, X.shape[1]
  X_test,        \* covariate rows of the test split
  Y_test,        \* targets of the test split
  N,             \* declared number of observations of the Stan data block
  n_trials,      \* binomial trials per observation
  rng,           \* state of the random source
  y_rep,         \* outcome of the last replication
  reps,          \* replications run so far
  runs           \* every dataset returned so far, with the seed and draw used

rvars == <<family, engine, K, X_test, Y_test, N, n_trials, rng, y_rep, reps,
           runs>>

VARIABLES
  nworkers,      \* workers replicating the batch
  todo,          \* draw indices no worker has taken yet
  wstate,        \* per worker: the draw it holds (-1: none) and its own source
  y_batch,       \* position j + 1: the outcome of replicating draw j
  order          \* draw indices in order of completion

pvars == <<nworkers, todo, wstate, y_batch, order>>

VARIABLES
  num_failures,  \* failures of the year being costed
  n_prepaid,     \* prepaid visits, the function's argument n
  cpc,           \* position in cost_function
  visits_left,   \* prepaid visits not used yet
  pending,       \* failures not billed yet
  cost           \* total cost so far

dvars == <<num_failures, n_prepaid, cpc, visits_left, pending, cost>>

VARIABLES
  labels,        \* module-level labels: NaN, 0 or 1 per document
  recs,          \* the Recommenderizer objects
  last_choice,   \* the last call of choose_next_index
  fits,          \* runs of the Stan model so far
  clicks         \* button clicks so far

gvars == <<labels, recs, last_choice, fits, clicks>>

vars == <<evars, svars, rvars, pvars, dvars, gvars>>

None == "none"

\* datasets of exactly n observations
DatasetsOfLen(n) == [1..n -> Values]
\* batches of b datasets of n observations each
BatchesOf(b, n) == [1..b -> DatasetsOfLen(n)]

\* log_pm_rep.shape[0]
LoopBoundShort(batch) == IF Len(batch) = 0 THEN 0 ELSE Len(batch) - 1
LoopBound(batch) == Len(batch)

\* the stored row that log_pm_rep[i,:] selects, i counted from 0
RowIndexPrev(batch, i) == ((i - 1) % Len(batch)) + 1
RowIndex(batch, i) == i + 1

EvalInit ==
  /\ \E n \in 0..MaxN, b \in 0..MaxB :
       /\ log_pm25 \in DatasetsOfLen(n)
       /\ log_pm_rep \in BatchesOf(b, n)
  /\ statistic \in Statistics
  /\ epc = "start"
  /\ observed_stat = None
  /\ ppc_stats = <<>>
  /\ ek = 0
  /\ statCalls = 0
  /\ calls = 1
  /\ prev_result = [status |-> "none"]

\* rank = (count of replicated_stats <= observed_stat) / batch_size
Rank(os, rs) ==
  IF Len(rs) = 0 THEN EmptyBatch
  ELSE <<Cardinality({j \in 1..Len(rs) : Leq(rs[j], os)}), Len(rs)>>

\* what a finished run of the cell hands to the plots
CheckResult ==
  [observed_stat |-> observed_stat,
   replicated_stats |-> ppc_stats,
   rank |-> Rank(observed_stat, ppc_stats)]

\* observed_skew = skew(data.log_pm25.values)
EvalObserved ==
  /\ epc = "start"
  /\ observed_stat' = StatValue(statistic, log_pm25)
  /\ log_pm25' = ArrayAfter(statistic, log_pm25)
  /\ statCalls' = statCalls + 1
  /\ ek' = 0
  /\ ppc_stats' = <<>>
  /\ epc' = IF StatValue(statistic, log_pm25) = ValueError THEN "raised" ELSE "loop"
  /\ UNCHANGED <<log_pm_rep, statistic, calls, prev_result>>

\* one iteration of [skew(log_pm_rep[i,:]) for i in range(log_pm_rep.shape[0])]
EvalReplicated ==
  /\ epc = "loop"
  /\ ek < LoopBound(log_pm_rep)
  /\ LET at == RowIndex(log_pm_rep, ek)
         row == log_pm_rep[at]
         v == StatValue(statistic, row)
     IN /\ log_pm_rep' = [log_pm_rep EXCEPT ![at] = ArrayAfter(statistic, row)]
        /\ statCalls' = statCalls + 1
        /\ IF v = ValueError
           THEN /\ epc' = "raised"
                /\ UNCHANGED <<ppc_stats, ek>>
           ELSE /\ ppc_stats' = Append(ppc_stats, v)
                /\ ek' = ek + 1
                /\ epc' = "loop"
  /\ UNCHANGED <<log_pm25, statistic, observed_stat, calls, prev_result>>

\* the range is exhausted: ppc_skews = np.array([...])
EvalDone ==
  /\ epc = "loop"
  /\ ek = LoopBound(log_pm_rep)
  /\ epc' = "done"
  /\ UNCHANGED <<log_pm25, log_pm_rep, statistic, observed_stat, ppc_stats, ek,
                 statCalls, calls, prev_result>>

\* the cell is run again on the same data
EvalRerun ==
  /\ epc \in {"done", "raised"}
  /\ calls < MaxCalls
  /\ prev_result' = IF epc = "done"
                    THEN [status |-> "returned", result |-> CheckResult]
                    ELSE [status |-> "raised"]
  /\ calls' = calls + 1
  /\ epc' = "start"
  /\ statCalls' = 0
  /\ ek' = 0
  /\ UNCHANGED <<log_pm25, log_pm_rep, statistic, observed_stat, ppc_stats>>

\* evaluate(observed, replicated_batch, statistic) as one function of its inputs
Evaluate(observed, replicated_batch, stat) ==
  LET os == StatValue(stat, observed)
      rs == [j \in 1..LoopBound(replicated_batch) |->
               StatValue(stat, replicated_batch[RowIndex(replicated_batch, j - 1)])]
  IN [observed_stat |-> os, replicated_stats |-> rs, rank |-> Rank(os, rs)]

EvalNext ==
  (EvalObserved \/ EvalReplicated \/ EvalDone \/ EvalRerun)
  /\ UNCHANGED <<svars, rvars, pvars, dvars, gvars>>

\* --------------------------------------------------------- parameter sampler
\* traces_norm = fit_norm.extract(): columns beta, sigma, intercept of equal length
BetaVals == {<<0>>, <<1>>}
SigmaVals == {0, 1}
InterceptVals == {0}

TracesOfLen(b) ==
  {[beta |-> bs, sigma |-> ss, intercept |-> is] :
     bs \in [1..b -> BetaVals], ss \in [1..b -> SigmaVals],
     is \in [1..b -> InterceptVals]}

\* traces_norm["beta"].shape[0]
\* every column of the traces holds one entry per draw
ColumnLen(tr) == Len(tr[CHOOSE f \in DOMAIN tr : TRUE])

TraceLenShort(tr) == IF ColumnLen(tr) = 0 THEN 0 ELSE ColumnLen(tr) - 1
TraceLen(tr) == ColumnLen(tr)

\* traces[...][i]: numpy indexing, i counted from 0, negative i counted from
\* the end, anything else an IndexError
DrawAtClipped(tr, i) ==
  LET n == ColumnLen(tr) IN
  IF n = 0 THEN [status |-> IndexError, i |-> i]
  ELSE LET k == IF i >= n THEN n ELSE IF i < 0 THEN (i % n) + 1 ELSE i + 1
       IN [status |-> "draw", i |-> i,
           draw |-> [f \in DOMAIN tr |-> tr[f][k]]]
DrawAt(tr, i) ==
  LET n == ColumnLen(tr) IN
  IF i >= n \/ i < -n THEN [status |-> IndexError, i |-> i]
  ELSE [status |-> "draw", i |-> i,
        draw |-> [f \in DOMAIN tr |-> tr[f][(i % n) + 1]]]

\* where a new loop over the draws begins
StartPosResumed == it_pos
StartPos == 0

SamplerIdle ==
  /\ it_state = "none"
  /\ it_pos = 0
  /\ it_len = 0
  /\ yielded = <<>>
  /\ completed = 0
  /\ first_yield = <<>>
  /\ abandoned = FALSE
  /\ last_call = [status |-> "none"]

SamplerInit ==
  /\ \E b \in 0..MaxDraws : traces \in TracesOfLen(b)
  /\ SamplerIdle

\* for i in range(traces.shape[0]): a loop starts, leaving any running one
IterStart ==
  /\ completed < MaxIter
  /\ it_state' = "running"
  /\ it_pos' = StartPos
  /\ it_len' = TraceLen(traces)
  /\ yielded' = <<>>
  /\ abandoned' = (abandoned \/ it_state = "running")
  /\ UNCHANGED <<traces, completed, first_yield, last_call>>

\* one pass of the loop body reads draw it_pos
IterNext ==
  /\ it_state = "running"
  /\ it_pos < it_len
  /\ yielded' = Append(yielded, DrawAt(traces, it_pos))
  /\ it_pos' = it_pos + 1
  /\ UNCHANGED <<traces, it_state, it_len, completed, first_yield, abandoned,
                 last_call>>

\* the range is exhausted
IterStop ==
  /\ it_state = "running"
  /\ it_pos >= it_len
  /\ it_state' = "done"
  /\ completed' = completed + 1
  /\ first_yield' = IF completed = 0 THEN yielded ELSE first_yield
  /\ UNCHANGED <<traces, it_pos, it_len, yielded, abandoned, last_call>>

\* an indexed read traces[...][i]
DrawAtCall ==
  /\ \E i \in (-MaxIndex)..MaxIndex : last_call' = DrawAt(traces, i)
  /\ UNCHANGED <<traces, it_state, it_pos, it_len, yielded, completed,
                 first_yield, abandoned>>

SamplerNext ==
  (IterStart \/ IterNext \/ IterStop \/ DrawAtCall)
  /\ UNCHANGED <<evars, rvars, pvars, dvars, gvars>>

\* ---------------------------------------------------------------- replicator
Families == {"normal", "student_t", "poisson", "binomial", "gamma"}
StanError == "StanError"
ZeroDivisionError == "ZeroDivisionError"
InvalidParameter == "InvalidParameter"

\* the random source: a seed and the number of raw outputs consumed since
Raw(r) == (5 * r.seed + 7 * r.pos + 2) % RngPeriod
AdvanceBy(r, n) == [r EXCEPT !.pos = r.pos + n]
\* the raw output k places ahead of the current one, k counted from 1
RawAhead(r, k) == Raw(AdvanceBy(r, k - 1))

\* one standard normal variate, on the grid -1, 0, 1
StdNormal(raw) == (raw % 3) - 1
\* one standard t variate with nu degrees of freedom: heavier tails for small nu
StdT(nu, raw) == IF nu <= 1 THEN 2 * ((raw % 3) - 1) ELSE (raw % 3) - 1
\* one Poisson count of rate lam
PoissonCountCentred(lam, raw) == (raw % (2 * lam + 1)) - lam
PoissonCount(lam, raw) == IF lam = 0 THEN 0 ELSE raw % (2 * lam + 1)
\* one binomial count of n trials with success probability thetaH / 2
BinomialCountPooled(n, thetaH, raw) ==
  IF thetaH = 0 THEN 0 ELSE IF thetaH = 2 THEN MaxTrials ELSE raw % (MaxTrials + 1)
BinomialCount(n, thetaH, raw) ==
  IF thetaH = 0 THEN 0 ELSE IF thetaH = 2 THEN n ELSE raw % (n + 1)
\* one gamma variate
GammaVariate(shape, scale, raw) ==
  IF shape = 0 \/ scale = 0 THEN 0 ELSE shape * scale + (raw % 2)

\* np.random.choice(np.arange(n))
Choice(r, n) ==
  IF n = 0 THEN [status |-> ValueError, rng |-> r]
  ELSE [status |-> "ok", value |-> Raw(r) % n, rng |-> AdvanceBy(r, 1)]

\* np.random.normal(0, sigma, size=size)
NormalVecUnitScale(r, sigma, size) ==
  IF sigma < 0 THEN [status |-> ValueError, rng |-> r]
  ELSE [status |-> "ok",
        value |-> [j \in 1..size |-> 0 + StdNormal(RawAhead(r, j))],
        rng |-> AdvanceBy(r, size)]
NormalVec(r, sigma, size) ==
  IF sigma < 0 THEN [status |-> ValueError, rng |-> r]
  ELSE [status |-> "ok",
        value |-> [j \in 1..size |-> 0 + sigma * StdNormal(RawAhead(r, j))],
        rng |-> AdvanceBy(r, size)]

\* np.random.standard_t(nu, size=size)
StandardTVec(r, nu, size) ==
  IF nu <= 0 THEN [status |-> ValueError, rng |-> r]
  ELSE [status |-> "ok",
        value |-> [j \in 1..size |-> StdT(nu, RawAhead(r, j))],
        rng |-> AdvanceBy(r, size)]

\* X_test = X[test], Y_test = Y[test]: the rows of a where the mask holds
RECURSIVE Mask(_, _)
Mask(a, test) ==
  IF a = <<>> THEN <<>>
  ELSE (IF Head(test) THEN <<Head(a)>> ELSE <<>>) \o Mask(Tail(a), Tail(test))

TestCovariates(X, test) == Mask(X, test)
TestTargetsOfTrain(Y, test) == Mask(Y, [j \in 1..Len(test) |-> ~test[j]])
TestTargets(Y, test) == Mask(Y, test)

\* size=len(Y_test)
NoiseSize(yt) == Len(yt)

RECURSIVE DotRow(_, _)
DotRow(b, x) == IF b = <<>> THEN 0 ELSE Head(b) * Head(x) + DotRow(Tail(b), Tail(x))

\* beta.dot(X_test.T): one linear predictor per row of X_test
Dot(beta, X, k) ==
  IF Len(beta) # k THEN [status |-> ValueError]
  ELSE [status |-> "ok", value |-> [n \in 1..Len(X) |-> DotRow(beta, X[n])]]

\* length of a + b for one-dimensional arrays of lengths n and m; -1 when the
\* shapes cannot be broadcast together
Broadcast(n, m) ==
  IF n = m THEN n ELSE IF n = 1 THEN m ELSE IF m = 1 THEN n ELSE -1
Elem(v, n) == IF Len(v) = 1 THEN v[1] ELSE v[n]

\* beta.dot(X_test.T) + intercept + epsilon
AddNoise(draw, X, k, eps, r) ==
  LET lp == Dot(draw.beta, X, k) IN
  IF lp.status # "ok" THEN [status |-> ValueError, rng |-> r]
  ELSE LET n == Broadcast(Len(lp.value), Len(eps)) IN
       IF n < 0 THEN [status |-> ValueError, rng |-> r]
       ELSE [status |-> "dataset",
             y |-> [j \in 1..n |-> Elem(lp.value, j) + draw.intercept + Elem(eps, j)],
             rng |-> r]

\* normal model: epsilon = np.random.normal(0, sigma, size=len(Y_test))
ReplicateNormal(draw, X, k, yt, r) ==
  LET e == NormalVec(r, draw.sigma, NoiseSize(yt)) IN
  IF e.status # "ok" THEN [status |-> ValueError, rng |-> e.rng]
  ELSE AddNoise(draw, X, k, e.value, e.rng)

\* t model: epsilon = sigma*np.random.standard_t(nu, size=len(Y_test))
ReplicateStudentT(draw, X, k, yt, r) ==
  LET t == StandardTVec(r, draw.nu, NoiseSize(yt)) IN
  IF t.status # "ok" THEN [status |-> ValueError, rng |-> t.rng]
  ELSE AddNoise(draw, X, k, [j \in 1..Len(t.value) |-> draw.sigma * t.value[j]], t.rng)

\* generated quantities: for(i in 1:N) y_sim[i] = poisson_rng(lam);
GqPoisson(draw, n, r) ==
  IF n > 0 /\ draw.lam < 0 THEN [status |-> StanError, rng |-> r]
  ELSE [status |-> "dataset",
        y |-> [j \in 1..n |-> PoissonCount(draw.lam, RawAhead(r, j))],
        rng |-> AdvanceBy(r, n)]

\* generated quantities: for (n in 1:N) log_pm_rep[n] = normal_rng(beta0 +
\* beta1 * log_sat[n], sigma);
GqNormal(draw, X, n, r) ==
  IF n > 0 /\ draw.sigma <= 0 THEN [status |-> StanError, rng |-> r]
  ELSE [status |-> "dataset",
        y |-> [j \in 1..n |->
                 draw.intercept + DotRow(draw.beta, X[j])
                 + draw.sigma * StdNormal(RawAhead(r, j))],
        rng |-> AdvanceBy(r, n)]

\* np.random.gamma(shape, 1./rate, size=size)
ReplicateGamma(draw, size, r) ==
  IF draw.rate = 0 THEN [status |-> ZeroDivisionError, rng |-> r]
  ELSE LET scale == draw.rate IN   \* 1/rate for rate in {-1, 1}
       IF draw.shape < 0 \/ scale < 0 THEN [status |-> ValueError, rng |-> r]
       ELSE [status |-> "dataset",
             y |-> [j \in 1..size |-> GammaVariate(draw.shape, scale, RawAhead(r, j))],
             rng |-> AdvanceBy(r, size)]

\* binomial_sample(n_trials[i], theta), theta = thetaH / 2
ReplicateBinomial(draw, trials, r) ==
  IF draw.thetaH < 0 \/ draw.thetaH > 2 THEN [status |-> InvalidParameter, rng |-> r]
  ELSE [status |-> "dataset",
        y |-> [j \in 1..Len(trials) |->
                 BinomialCount(trials[j], draw.thetaH, RawAhead(r, j))],
        rng |-> AdvanceBy(r, Len(trials))]

\* parameter values of the draws handed to the replicator
CoefVals == {0, 1}
ScaleVals == {-1, 0, 1}
NuVals == {0, 2}
LamVals == {-1, 0, 1}
ThetaHVals == {-1, 0, 1, 2, 3}
ShapeVals == {-1, 0, 1}
RateVals == {-1, 0, 1}

ColumnsOf(fam, k) ==
  CASE fam = "normal" ->
         [beta : [1..k -> CoefVals], intercept : CoefVals, sigma : ScaleVals]
    [] fam = "student_t" ->
         [beta : [1..k -> CoefVals], intercept : CoefVals, sigma : ScaleVals,
          nu : NuVals]
    [] fam = "poisson" -> [lam : LamVals]
    [] fam = "binomial" -> [thetaH : ThetaHVals]
    [] fam = "gamma" -> [shape : ShapeVals, rate : RateVals]

\* fit.extract(): b draws of the family's parameters, stored by column
TracesFor(fam, k, b) ==
  {[f \in DOMAIN CHOOSE d \in ColumnsOf(fam, k) : TRUE |-> [j \in 1..b |-> ds[j][f]]] :
     ds \in [1..b -> ColumnsOf(fam, k)]}

Engines(fam) ==
  CASE fam = "normal" -> {"numpy", "stan"}
    [] fam = "student_t" -> {"numpy"}
    [] fam = "poisson" -> {"stan"}
    [] fam = "gamma" -> {"numpy"}
    [] fam = "binomial" -> {"spec"}

Regression(fam) == fam \in {"normal", "student_t"}

\* lengths of the coefficient vector of the draws: Stan declares vector[K]
\* beta, the numpy cells take whatever the traces hold
BetaLens(fam, eng, k) ==
  IF eng = "numpy" /\ Regression(fam) THEN {k, k + 1} ELSE {k}

Seeds == {0, 1}

ReplIdle ==
  /\ family = "normal"
  /\ engine = "none"
  /\ K = 1
  /\ X_test = <<>>
  /\ Y_test = <<>>
  /\ N = 0
  /\ n_trials = <<>>
  /\ rng = [seed |-> 0, pos |-> 0]
  /\ y_rep = [status |-> "none"]
  /\ reps = 0
  /\ runs = {}

ReplInit ==
  /\ family \in Families
  /\ engine \in Engines(family)
  /\ K \in 1..MaxK
  /\ \E m \in 0..MaxRows :
       \E X \in [1..m -> [1..K -> CoefVals]], Y \in [1..m -> {0}],
          test \in [1..m -> BOOLEAN] :
         /\ X_test = IF Regression(family) THEN TestCovariates(X, test) ELSE <<>>
         /\ Y_test = IF Regression(family) THEN TestTargets(Y, test) ELSE <<>>
  /\ N \in 0..MaxRows
  /\ Regression(family) => N = Len(X_test)
  /\ n_trials \in [1..N -> 0..MaxTrials]
  /\ family # "binomial" => n_trials = [j \in 1..N |-> 0]
  /\ \E b \in 0..MaxReplDraws, kb \in BetaLens(family, engine, K) :
       traces \in TracesFor(family, kb, b)
  /\ (engine = "stan" /\ family = "normal") =>
       \A j \in 1..ColumnLen(traces) : traces.sigma[j] >= 0
  /\ rng \in [seed : Seeds, pos : {0}]
  /\ y_rep = [status |-> "none"]
  /\ reps = 0
  /\ runs = {}

\* beta = traces["beta"][i,:], sigma = traces["sigma"][i], ...: every parameter
\* of the pass is read at the index i drawn for it
ReadParamsFirstSigma(tr, i) ==
  [f \in DOMAIN tr |-> DrawAt(tr, IF f = "sigma" THEN 0 ELSE i).draw[f]]
ReadParams(tr, i) == [f \in DOMAIN tr |-> DrawAt(tr, i).draw[f]]

\* the record kept of a replication of draw i started from random source r
Logged(r, i, out) ==
  IF out.status = "dataset"
  THEN runs \cup {[seed |-> r.seed, i |-> i, y |-> out.y]}
  ELSE runs

\* one pass of the posterior predictive loop of the regression notebooks:
\* pick a draw at random, read its parameters, add noise to the predictor
PpcPass ==
  /\ engine = "numpy"
  /\ Regression(family)
  /\ reps < MaxReps
  /\ y_rep.status \in {"none", "dataset"}
  /\ LET c == Choice(rng, TraceLen(traces)) IN
     IF c.status # "ok"
     THEN /\ y_rep' = [status |-> ValueError]
          /\ rng' = c.rng
          /\ runs' = runs
     ELSE LET d == ReadParams(traces, c.value)
              out == IF family = "normal"
                     THEN ReplicateNormal(d, X_test, K, Y_test, c.rng)
                     ELSE ReplicateStudentT(d, X_test, K, Y_test, c.rng)
          IN /\ y_rep' = IF out.status = "dataset"
                         THEN [status |-> "dataset", y |-> out.y, i |-> c.value]
                         ELSE [status |-> out.status, i |-> c.value]
             /\ rng' = out.rng
             /\ runs' = Logged(rng, c.value, out)
  /\ reps' = reps + 1
  /\ UNCHANGED <<family, engine, K, X_test, Y_test, N, n_trials, traces>>

\* the generated quantities block, evaluated once per draw in sampling order
GqPass ==
  /\ engine = "stan"
  /\ reps < TraceLen(traces)
  /\ y_rep.status \in {"none", "dataset"}
  /\ LET d == DrawAt(traces, reps).draw
         out == IF family = "poisson" THEN GqPoisson(d, N, rng)
                ELSE GqNormal(d, X_test, N, rng)
     IN /\ y_rep' = IF out.status = "dataset"
                    THEN [status |-> "dataset", y |-> out.y, i |-> reps]
                    ELSE [status |-> out.status, i |-> reps]
        /\ rng' = out.rng
        /\ runs' = Logged(rng, reps, out)
  /\ reps' = reps + 1
  /\ UNCHANGED <<family, engine, K, X_test, Y_test, N, n_trials, traces>>

\* a batch of gamma variates, one per declared observation
GammaPass ==
  /\ family = "gamma"
  /\ reps < TraceLen(traces)
  /\ y_rep.status \in {"none", "dataset"}
  /\ LET out == ReplicateGamma(DrawAt(traces, reps).draw, N, rng)
     IN /\ y_rep' = IF out.status = "dataset"
                    THEN [status |-> "dataset", y |-> out.y, i |-> reps]
                    ELSE [status |-> out.status, i |-> reps]
        /\ rng' = out.rng
        /\ runs' = Logged(rng, reps, out)
  /\ reps' = reps + 1
  /\ UNCHANGED <<family, engine, K, X_test, Y_test, N, n_trials, traces>>

\* a batch of binomial counts, one per row of n_trials
BinomialPass ==
  /\ family = "binomial"
  /\ reps < TraceLen(traces)
  /\ y_rep.status \in {"none", "dataset"}
  /\ LET out == ReplicateBinomial(DrawAt(traces, reps).draw, n_trials, rng)
     IN /\ y_rep' = IF out.status = "dataset"
                    THEN [status |-> "dataset", y |-> out.y, i |-> reps]
                    ELSE [status |-> out.status, i |-> reps]
        /\ rng' = out.rng
        /\ runs' = Logged(rng, reps, out)
  /\ reps' = reps + 1
  /\ UNCHANGED <<family, engine, K, X_test, Y_test, N, n_trials, traces>>

\* np.random.seed(s): the global random source restarts from seed s
Reseed ==
  /\ engine = "numpy"
  /\ y_rep.status \in {"none", "dataset"}
  /\ \E s \in Seeds : rng' = [seed |-> s, pos |-> 0]
  /\ UNCHANGED <<family, engine, K, X_test, Y_test, N, n_trials, traces, y_rep,
                 reps, runs>>

ReplNext ==
  (PpcPass \/ GqPass \/ GammaPass \/ BinomialPass \/ Reseed)
  /\ UNCHANGED <<evars, it_state, it_pos, it_len, yielded, completed, first_yield,
                 abandoned, last_call, pvars, dvars, gvars>>

\* ------------------------------------------------------ parallel replication
\* replicate(draw, family, covariates) with random source r, by family
ReplicateDraw(draw, r) ==
  CASE family = "normal" /\ engine = "numpy" ->
         ReplicateNormal(draw, X_test, K, Y_test, r)
    [] family = "normal" /\ engine = "stan" -> GqNormal(draw, X_test, N, r)
    [] family = "student_t" -> ReplicateStudentT(draw, X_test, K, Y_test, r)
    [] family = "poisson" -> GqPoisson(draw, N, r)
    [] family = "gamma" -> ReplicateGamma(draw, N, r)
    [] family = "binomial" -> ReplicateBinomial(draw, n_trials, r)

\* what a replication leaves in the batch
Outcome(out) ==
  IF out.status = "dataset" THEN [status |-> "dataset", y |-> out.y]
  ELSE [status |-> out.status]

\* the seed of the source worker w uses for draw j
WorkerSeedByWorker(w, j) == w
WorkerSeed(w, j) == j

NoJob == -1

ParIdle ==
  /\ nworkers = 0
  /\ todo = {}
  /\ wstate = <<>>
  /\ y_batch = <<>>
  /\ order = <<>>

\* the draws, family and covariates handed to the workers
ParInputs ==
  /\ family \in Families
  /\ engine \in Engines(family)
  /\ K \in 1..MaxK
  /\ \E m \in 0..MaxParRows :
       /\ X_test \in (IF Regression(family) THEN [1..m -> [1..K -> CoefVals]]
                      ELSE {<<>>})
       /\ Y_test = (IF Regression(family) THEN [j \in 1..m |-> 0] ELSE <<>>)
       /\ N = m
  /\ n_trials \in [1..N -> 0..MaxTrials]
  /\ family # "binomial" => n_trials = [j \in 1..N |-> 0]
  /\ \E b \in 0..MaxParDraws : traces \in TracesFor(family, K, b)
  /\ (engine = "stan" /\ family = "normal") =>
       \A j \in 1..ColumnLen(traces) : traces.sigma[j] >= 0
  /\ rng = [seed |-> 0, pos |-> 0]
  /\ y_rep = [status |-> "none"]
  /\ reps = 0
  /\ runs = {}

ParInit ==
  /\ nworkers \in 1..MaxWorkers
  /\ todo = 0..(ColumnLen(traces) - 1)
  /\ wstate = [w \in 1..nworkers |-> [job |-> NoJob, rng |-> [seed |-> 0, pos |-> 0]]]
  /\ y_batch = [j \in 1..ColumnLen(traces) |-> [status |-> "none"]]
  /\ order = <<>>

\* an idle worker takes any draw still to do and seeds its source for it
Take(w) ==
  /\ wstate[w].job = NoJob
  /\ \E j \in todo :
       /\ wstate' = [wstate EXCEPT ![w] =
                       [job |-> j, rng |-> [seed |-> WorkerSeed(w, j), pos |-> 0]]]
       /\ todo' = todo \ {j}
  /\ UNCHANGED <<nworkers, y_batch, order>>

\* the worker replicates the draw it holds and stores the outcome at the
\* draw's position
Finish(w) ==
  /\ wstate[w].job # NoJob
  /\ LET j == wstate[w].job
         out == ReplicateDraw(DrawAt(traces, j).draw, wstate[w].rng)
     IN /\ y_batch' = [y_batch EXCEPT ![j + 1] = Outcome(out)]
        /\ wstate' = [wstate EXCEPT ![w] = [job |-> NoJob, rng |-> out.rng]]
        /\ order' = Append(order, j)
  /\ UNCHANGED <<nworkers, todo>>

ParNext ==
  /\ \E w \in 1..nworkers : Take(w) \/ Finish(w)
  /\ UNCHANGED <<evars, svars, rvars, dvars, gvars>>

\* the batch of the sequential run: draw after draw, each from its own source
SequentialBatch ==
  [j \in 1..ColumnLen(traces) |->
     Outcome(ReplicateDraw(DrawAt(traces, j - 1).draw, [seed |-> j - 1, pos |-> 0]))]

ParDone == todo = {} /\ \A w \in 1..nworkers : wstate[w].job = NoJob

\* ------------------------------------------------------------ cost function
PrepaidPrice == 1000
ExtraPrice == 1500

\* what one failure adds to the bill when left prepaid visits remain
VisitPriceFlat(left) == ExtraPrice
VisitPrice(left) == IF left > 0 THEN 0 ELSE ExtraPrice

CostIdle ==
  /\ num_failures = 0
  /\ n_prepaid = 0
  /\ cpc = "idle"
  /\ visits_left = 0
  /\ pending = 0
  /\ cost = 0

\* cost_function(num_failures, n) is called
CostInit ==
  /\ num_failures \in 0..MaxFailures
  /\ n_prepaid \in 0..MaxPrepaid
  /\ cpc = "start"
  /\ visits_left = 0
  /\ pending = 0
  /\ cost = 0

\* the n prepaid visits are paid for, whether or not they are used
CostPrepay ==
  /\ cpc = "start"
  /\ cost' = n_prepaid * PrepaidPrice
  /\ visits_left' = n_prepaid
  /\ pending' = num_failures
  /\ cpc' = "billing"
  /\ UNCHANGED <<num_failures, n_prepaid>>

\* one failure: a prepaid visit if one is left, a non-prepaid visit otherwise
CostVisit ==
  /\ cpc = "billing"
  /\ pending > 0
  /\ cost' = cost + VisitPrice(visits_left)
  /\ visits_left' = IF visits_left > 0 THEN visits_left - 1 ELSE 0
  /\ pending' = pending - 1
  /\ UNCHANGED <<num_failures, n_prepaid, cpc>>

\* every failure is billed: the total is returned
CostReturn ==
  /\ cpc = "billing"
  /\ pending = 0
  /\ cpc' = "returned"
  /\ UNCHANGED <<num_failures, n_prepaid, visits_left, pending, cost>>

CostNext ==
  (CostPrepay \/ CostVisit \/ CostReturn)
  /\ UNCHANGED <<evars, svars, rvars, pvars, gvars>>

\* -------------------------------------------------------------- recommender
\* np.nan in the float array labels: neither 0 nor 1
NanLabel == -1

\* reward_estimates[labeled_indices] = -1000
MaskValue == -1000

\* values of components.dot(beta_sample) for one document
RewardGrid == {MaskValue - 1, MaskValue, 1}

Docs(lab) == DOMAIN lab

\* np.isnan(labels)
Unlabeled(lab) == {d \in Docs(lab) : lab[d] = NanLabel}

\* (labels == v).sum()
CountLabel(lab, v) == Cardinality({d \in Docs(lab) : lab[d] = v})

Min2(x, y) == IF x <= y THEN x ELSE y

\* if min((labels==0).sum(), (labels==1).sum()) == 0: the random branch
UseRandomNoLabels(lab) == CountLabel(lab, 0) + CountLabel(lab, 1) = 0
UseRandom(lab) == Min2(CountLabel(lab, 0), CountLabel(lab, 1)) = 0

\* reward_estimates after the labeled documents are set to -1000
Masked(rw, lab) ==
  [d \in Docs(lab) |-> IF lab[d] = NanLabel THEN rw[d] ELSE MaskValue]

\* reward_estimates.argmax(): the first index of the largest value
ArgMax(f) ==
  CHOOSE d \in DOMAIN f :
    \A e \in DOMAIN f : f[e] < f[d] \/ (f[e] = f[d] /\ d <= e)

\* the outcomes of choose_next_index() when it reads lab
Choices(lab) ==
  IF UseRandom(lab)
  THEN IF Unlabeled(lab) = {}
       THEN {[branch |-> "random", seen |-> lab, status |-> ValueError]}
       ELSE {[branch |-> "random", seen |-> lab, status |-> "ok", result |-> d] :
               d \in Unlabeled(lab)}
  ELSE {[branch |-> "thompson", seen |-> lab, status |-> "ok", rewards |-> rw,
         result |-> ArgMax(Masked(rw, lab))] : rw \in [Docs(lab) -> RewardGrid]}

\* model.sampling(...) runs in the Thompson branch only
FitsAfter(ch) == IF ch.branch = "thompson" THEN fits + 1 ELSE fits

\* the text of the counter pane
Counter(lab) == [yes |-> CountLabel(lab, 1), no |-> CountLabel(lab, 0)]

NoRec == [status |-> "none"]

Instances == 1..MaxInstances

Live(i) == recs[i].status = "live"

\* Recommenderizer._sample once choose_next_index() has given ch
Sample(rec, lab, ch) ==
  IF ch.status = "ok"
  THEN [rec EXCEPT !.next_index = ch.result, !.counter = Counter(lab)]
  ELSE rec

\* the labels that the choice after a click reads
SampleLabelsBefore(old, new) == old
SampleLabels(old, new) == new

\* [1-x for x in foo._label_history]
LossOfYes(x) == x
Loss(x) == 1 - x

\* np.cumsum
CumSum(s) == [k \in 1..Len(s) |-> SumSeq(SubSeq(s, 1, k))]

\* the curve of the regret plot, one point per round
Regret(h) == CumSum([p \in 1..Len(h) |-> Loss(h[p])])

\* the dashed line of the regret plot: np.arange(len(_label_history)) + 1
WorstRegret(h) == [k \in 1..Len(h) |-> (k - 1) + 1]

RecIdle ==
  /\ labels = <<>>
  /\ recs = <<>>
  /\ last_choice = [branch |-> "none"]
  /\ fits = 0
  /\ clicks = 0

\* labels = np.nan*np.ones(components.shape[0])
RecInit ==
  /\ \E ndocs \in 1..MaxDocs : labels = [d \in 0..(ndocs - 1) |-> NanLabel]
  /\ recs = [i \in Instances |-> NoRec]
  /\ last_choice = [branch |-> "none"]
  /\ fits = 0
  /\ clicks = 0

\* Recommenderizer(): __init__ ends with self._sample()
Construct(i) ==
  /\ ~Live(i)
  /\ \E ch \in Choices(labels) :
       /\ last_choice' = ch
       /\ fits' = FitsAfter(ch)
       /\ recs' = IF ch.status = "ok"
                  THEN [recs EXCEPT ![i] =
                          [status |-> "live", next_index |-> ch.result,
                           index_history |-> <<>>, label_history |-> <<>>,
                           counter |-> Counter(labels)]]
                  ELSE recs
  /\ UNCHANGED <<labels, clicks>>

\* _record_yes (v = 1) and _record_no (v = 0)
Record(i, v) ==
  /\ Live(i)
  /\ clicks < MaxClicks
  /\ clicks' = clicks + 1
  /\ labels' = [labels EXCEPT ![recs[i].next_index] = v]
  /\ \E ch \in Choices(SampleLabels(labels, labels')) :
       /\ last_choice' = ch
       /\ fits' = FitsAfter(ch)
       /\ recs' = [recs EXCEPT ![i] =
            Sample([recs[i] EXCEPT
                      !.index_history = Append(@, recs[i].next_index),
                      !.label_history = Append(@, v)],
                   labels', ch)]

RecordYes(i) == Record(i, 1)

RecordNo(i) == Record(i, 0)

RecNext ==
  (\E i \in Instances : Construct(i) \/ RecordYes(i) \/ RecordNo(i))
  /\ UNCHANGED <<evars, svars, rvars, pvars, dvars>>

\* ------------------------------------------------------------ specifications
EvalIdle ==
  /\ log_pm25 = <<>>
  /\ log_pm_rep = <<>>
  /\ statistic = "mean"
  /\ epc = "idle"
  /\ observed_stat = None
  /\ ppc_stats = <<>>
  /\ ek = 0
  /\ statCalls = 0
  /\ calls = 0
  /\ prev_result = [status |-> "none"]

Init ==
  /\ EvalInit
  /\ traces = [beta |-> <<>>, sigma |-> <<>>, intercept |-> <<>>]
  /\ SamplerIdle
  /\ ReplIdle
  /\ ParIdle
  /\ CostIdle
  /\ RecIdle

SpecEval == Init /\ [][EvalNext]_vars

InitSampler ==
  EvalIdle /\ SamplerInit /\ ReplIdle /\ ParIdle /\ CostIdle /\ RecIdle

SpecSampler == InitSampler /\ [][SamplerNext]_vars

InitRepl ==
  EvalIdle /\ SamplerIdle /\ ReplInit /\ ParIdle /\ CostIdle /\ RecIdle

SpecRepl == InitRepl /\ [][ReplNext]_vars

InitPar ==
  EvalIdle /\ SamplerIdle /\ ParInputs /\ ParInit /\ CostIdle /\ RecIdle

SpecPar == InitPar /\ [][ParNext]_vars

\* the replicator variables at rest, traces included
AllIdle ==
  /\ EvalIdle
  /\ traces = [beta |-> <<>>, sigma |-> <<>>, intercept |-> <<>>]
  /\ SamplerIdle
  /\ ReplIdle
  /\ ParIdle

InitCost == AllIdle /\ CostInit /\ RecIdle

SpecCost == InitCost /\ [][CostNext]_vars

InitRec == AllIdle /\ CostIdle /\ RecInit

SpecRec == InitRec /\ [][RecNext]_vars

\* ---------------------------------------------------------------- claims
BatchSize == Len(log_pm_rep)

\* the statistic named stat, spelled out on dataset a
StatOf(stat, a) ==
  IF stat = "mean" THEN Mean(a) ELSE IF stat = "median" THEN Median(a) ELSE Max(a)

\* C1: a finished evaluate returns observed_stat = statistic(observed) and
\* rank = (number of j with statistic(replicated_batch[j]) <= observed_stat)
\* / batch_size, the comparison being non-strict.
C1_RankIsFractionAtOrBelow ==
  (epc = "done" /\ BatchSize > 0) =>
    /\ CheckResult.observed_stat = StatOf(statistic, log_pm25)
    /\ CheckResult.rank =
         <<Cardinality({j \in 1..BatchSize :
              Leq(StatOf(statistic, log_pm_rep[j]), StatOf(statistic, log_pm25))}),
           BatchSize>>

\* observed mean against replicated means below, equal and above: rank 2/3
C1_Witness ==
  /\ epc = "done"
  /\ statistic = "mean"
  /\ BatchSize = 3
  /\ CheckResult.rank = <<2, 3>>
  /\ \E j \in 1..3 : ppc_stats[j] = observed_stat
  /\ \E j \in 1..3 : ~Leq(ppc_stats[j], observed_stat)

\* all orderings of a batch
BatchOrders(b) == {p \in [1..b -> 1..b] : \A i, j \in 1..b : p[i] = p[j] => i = j}
Permuted(batch, p) == [j \in 1..Len(batch) |-> batch[p[j]]]

\* C2: the rank is the same for every permutation of the replicated batch.
C2_RankPermutationInvariant ==
  (epc = "done" /\ BatchSize > 0) =>
    \A p \in BatchOrders(BatchSize) :
      Evaluate(log_pm25, Permuted(log_pm_rep, p), statistic).rank = CheckResult.rank

\* a batch whose statistics differ, some at or below and some above the observed
C2_Witness ==
  /\ epc = "done"
  /\ BatchSize >= 2
  /\ \E i, j \in 1..BatchSize : ppc_stats[i] # ppc_stats[j]
  /\ CheckResult.rank[1] \in 1..(BatchSize - 1)

AllEqualObserved == \A j \in 1..BatchSize : log_pm_rep[j] = log_pm25

\* C3: when every dataset of a non-empty batch equals observed, rank is 1.0.
C3_IdenticalBatchRankOne ==
  (epc = "done" /\ BatchSize > 0 /\ AllEqualObserved) =>
    CheckResult.rank[1] = CheckResult.rank[2]

\* C3 amended to datasets with at least one observation
C3_IdenticalNonEmptyRankOne ==
  (epc = "done" /\ BatchSize > 0 /\ AllEqualObserved /\ Len(log_pm25) > 0) =>
    CheckResult.rank[1] = CheckResult.rank[2]

C3_Witness ==
  /\ epc = "done"
  /\ BatchSize = 3
  /\ AllEqualObserved
  /\ Len(log_pm25) = 2
  /\ CheckResult.rank = <<3, 3>>

\* C4: with zero replicated datasets or zero observations evaluate fails with
\* EmptyBatch before the statistic is applied to anything.
C4_EmptyBatchBeforeStatistic ==
  (BatchSize = 0 \/ Len(log_pm25) = 0) => (statCalls = 0 /\ epc # "done")

\* C5: replicated_stats has one entry per replicated dataset, entry j being
\* statistic(replicated_batch[j]), in batch order.
C5_ReplicatedStatsInBatchOrder ==
  epc = "done" =>
    /\ Len(CheckResult.replicated_stats) = BatchSize
    /\ \A j \in 1..BatchSize :
         CheckResult.replicated_stats[j] = StatOf(statistic, log_pm_rep[j])

C5_Witness ==
  /\ epc = "done"
  /\ BatchSize = 3
  /\ ppc_stats[1] # ppc_stats[2]
  /\ ppc_stats[2] # ppc_stats[3]

\* C6: evaluate leaves observed and replicated_batch unchanged, and a second
\* call on the same inputs returns the same CheckResult as the first.
C6_EvaluatePure ==
  [][/\ log_pm25' = log_pm25
     /\ log_pm_rep' = log_pm_rep
     /\ (epc' = "done" /\ prev_result'.status = "returned") =>
          CheckResult' = prev_result'.result]_vars

\* a second finished run over unsorted data with the sorting statistic
C6_Witness ==
  /\ epc = "done"
  /\ calls = 2
  /\ prev_result.status = "returned"
  /\ statistic = "median"
  /\ BatchSize > 0
  /\ \E j \in 1..BatchSize : log_pm_rep[j] # Sorted(log_pm_rep[j])

\* draws in the batch
B == Len(traces.beta)

\* C7: a loop over all draws yields exactly B items, and the indexed read of
\* draw i, 0 <= i < B, is the i-th item the loop yielded.
C7_AllDrawsMatchDrawAt ==
  it_state = "done" =>
    /\ Len(yielded) = B
    /\ (last_call.status # "none" /\ last_call.i \in 0..(B - 1)) =>
         /\ last_call.status = "draw"
         /\ yielded[last_call.i + 1].draw = last_call.draw
         /\ \A f \in DOMAIN traces : last_call.draw[f] = traces[f][last_call.i + 1]

C7_Witness ==
  /\ it_state = "done"
  /\ B = 3
  /\ last_call.status = "draw"
  /\ last_call.i = 2
  /\ yielded[3].draw = last_call.draw
  /\ yielded[3] # yielded[1]

\* C8: an indexed read with i >= B raises IndexError and returns no draw;
\* on an empty batch every index raises.
C8_DrawAtOutOfRange ==
  (last_call.status # "none" /\ (last_call.i >= B \/ B = 0)) =>
    last_call.status = IndexError

C8_Witness ==
  /\ B = 3
  /\ last_call.status = IndexError
  /\ last_call.i = 5

\* index B itself is out of range
C8_WitnessAtB ==
  /\ B = 3
  /\ last_call.status = IndexError
  /\ last_call.i = 3

\* C9: every completed loop over the draws yields the same B draws in storage
\* order as the first one, also after an abandoned loop or indexed reads, and
\* the traces are never changed.
C9_AllDrawsRestartable ==
  [][/\ traces' = traces
     /\ (it_state' = "done" /\ completed' >= 2) =>
          /\ yielded' = first_yield'
          /\ Len(yielded') = Len(traces.beta)
          /\ \A k \in 1..Len(yielded') :
               \A f \in DOMAIN traces : yielded'[k].draw[f] = traces[f][k]]_vars

C9_Witness ==
  /\ it_state = "done"
  /\ completed = 2
  /\ abandoned
  /\ last_call.status = "draw"
  /\ B = 3
  /\ yielded[1] # yielded[2]

\* C10: for every family the replicated dataset has as many entries as X has
\* rows when covariates are given, and as many as the declared N otherwise.
C10_ReplicatedLength ==
  y_rep.status = "dataset" =>
    Len(y_rep.y) = (IF Regression(family) THEN Len(X_test) ELSE N)

C10_Witness ==
  /\ y_rep.status = "dataset"
  /\ Len(y_rep.y) = 2
  /\ family = "student_t"
  /\ reps = 2

\* C11: two replications run with the same seed on the same draw (the family
\* and the covariates being those of the run) return identical datasets,
\* whatever other replications happened before or between them.
C11_SameSeedSameDraw ==
  \A a, b \in runs : (a.seed = b.seed /\ a.i = b.i) => a.y = b.y

\* C12: once every draw of the batch has been replicated by the workers, each
\* with a source seeded by its draw index, position j of the batch holds the
\* replication of draw j and the batch equals that of the sequential run, for
\* every order of execution and every number of workers.
C12_ParallelBatchIsSequential ==
  ParDone => y_batch = SequentialBatch

\* two workers each replicated one of two equal draws, the second draw
\* finished first, and the two datasets differ
C12_Witness ==
  /\ ParDone
  /\ family = "normal"
  /\ engine = "numpy"
  /\ nworkers = 2
  /\ order = <<1, 0>>
  /\ wstate[1].rng.pos > 0
  /\ wstate[2].rng.pos > 0
  /\ y_batch[1].status = "dataset"
  /\ y_batch[2].status = "dataset"
  /\ y_batch[1] # y_batch[2]
  /\ traces.sigma[1] = traces.sigma[2]
  /\ traces.beta[1] = traces.beta[2]
  /\ traces.intercept[1] = traces.intercept[2]

\* the errors by which the code rejects a parameter value
DomainErrors == {InvalidParameter, ValueError, StanError, ZeroDivisionError}

\* C13: a gamma replication of a draw with shape <= 0 or rate <= 0 fails with
\* an invalid-parameter error and leaves the random source as it was.
C13_GammaInvalidParameter ==
  [][(/\ family = "gamma"
      /\ reps' = reps + 1
      /\ LET d == DrawAt(traces, reps).draw IN d.shape <= 0 \/ d.rate <= 0)
     => (y_rep'.status \in DomainErrors /\ rng' = rng)]_vars

\* the draw the last replication used
LastDraw == DrawAt(traces, y_rep.i).draw

\* nu <= 0, lambda < 0, theta outside [0,1]
InvalidDraw(d) ==
  CASE family = "student_t" -> d.nu <= 0
    [] family = "poisson" -> d.lam < 0
    [] family = "binomial" -> d.thetaH < 0 \/ d.thetaH > 2
    [] OTHER -> FALSE

\* replications of the batch still to run
PassesLeft ==
  IF engine = "numpy" /\ Regression(family) THEN reps < MaxReps
  ELSE reps < TraceLen(traces)

\* C14: the replication of a draw with nu <= 0 (student_t), lambda < 0
\* (poisson) or theta outside [0,1] (binomial) fails with an invalid-parameter
\* error and returns no dataset, and the failure concerns that draw only: the
\* replications still to run in the batch go on.
C14_InvalidDrawFailsAlone ==
  ("i" \in DOMAIN y_rep /\ InvalidDraw(LastDraw)) =>
    /\ y_rep.status \in DomainErrors
    /\ PassesLeft => ENABLED (PpcPass \/ GqPass \/ GammaPass \/ BinomialPass)

\* C15: the replication of a normal or student_t draw with a negative scale
\* sigma fails with an invalid-parameter error and returns no dataset.
C15_NegativeScaleFails ==
  (Regression(family) /\ "i" \in DOMAIN y_rep /\ LastDraw.sigma < 0) =>
    y_rep.status \in DomainErrors

ShapeMismatch == "ShapeMismatch"
ShapeErrors == {ShapeMismatch, ValueError}

\* C16: when beta and the covariate matrix disagree in size the replication
\* fails with a shape error before any sample is drawn: the random source is
\* as the selection of the draw left it, also when the draw has an invalid
\* parameter.
C16_ShapeMismatchBeforeSampling ==
  [][(/\ engine = "numpy"
      /\ Regression(family)
      /\ reps' = reps + 1
      /\ "i" \in DOMAIN y_rep'
      /\ Len(traces.beta[y_rep'.i + 1]) # K)
     => (y_rep'.status \in ShapeErrors /\ rng' = Choice(rng, TraceLen(traces)).rng)]_vars

\* the linear predictor dot(beta, X[j]) + intercept of draw d at row j
LinearPredictor(d, j) == DotRow(d.beta, X_test[j]) + d.intercept

\* values a standard normal sample takes
NoiseGrid == {StdNormal(raw) : raw \in 0..(RngPeriod - 1)}

\* C17: every value of a normal replicated dataset is the linear predictor
\* of its row plus sigma times a noise sample; with sigma = 0 the numpy cell
\* returns a dataset, equal to the linear predictor at every row, whatever
\* the state of the random source.
C17_NormalNoNoiseLimit ==
  (family = "normal" /\ "i" \in DOMAIN y_rep) =>
    /\ y_rep.status = "dataset" =>
         /\ \A j \in 1..Len(y_rep.y) :
              \E z \in NoiseGrid :
                y_rep.y[j] = LinearPredictor(LastDraw, j) + LastDraw.sigma * z
         /\ LastDraw.sigma = 0 =>
              \A j \in 1..Len(y_rep.y) : y_rep.y[j] = LinearPredictor(LastDraw, j)
    /\ (engine = "numpy" /\ LastDraw.sigma = 0 /\ Len(LastDraw.beta) = K) =>
         (y_rep.status = "dataset" /\ Len(y_rep.y) = Len(X_test))

\* a second replication with sigma = 0 over two rows with different predictors
C17_Witness ==
  /\ family = "normal"
  /\ engine = "numpy"
  /\ reps = 2
  /\ rng.pos > 2
  /\ y_rep.status = "dataset"
  /\ LastDraw.sigma = 0
  /\ Len(y_rep.y) = 2
  /\ y_rep.y[1] # y_rep.y[2]
  /\ y_rep.y[2] = LinearPredictor(LastDraw, 2)

\* C18: for the poisson family with lambda >= 0 every value of every
\* replicated dataset is a non-negative integer.
C18_PoissonNonNegative ==
  (family = "poisson" /\ y_rep.status = "dataset" /\ LastDraw.lam >= 0) =>
    \A j \in 1..Len(y_rep.y) : y_rep.y[j] \in Nat

\* the second draw of a batch, rate 1, two observations, not all zero
C18_Witness ==
  /\ family = "poisson"
  /\ y_rep.status = "dataset"
  /\ y_rep.i = 1
  /\ LastDraw.lam = 1
  /\ Len(y_rep.y) = 2
  /\ \E j \in 1..2 : y_rep.y[j] > 0

\* C20: for the binomial family with theta in [0,1] the replication returns
\* one integer per row, value i lying in 0..n_trials[i], each row bounded by
\* its own number of trials.
C20_BinomialWithinTrials ==
  (family = "binomial" /\ "i" \in DOMAIN y_rep /\ ~InvalidDraw(LastDraw)) =>
    /\ y_rep.status = "dataset"
    /\ Len(y_rep.y) = Len(n_trials)
    /\ \A j \in 1..Len(y_rep.y) : y_rep.y[j] \in 0..n_trials[j]

\* rows with different numbers of trials, the first row above the bound of
\* the second
C20_Witness ==
  /\ family = "binomial"
  /\ y_rep.status = "dataset"
  /\ LastDraw.thetaH = 1
  /\ n_trials = <<2, 1>>
  /\ y_rep.y[1] = 2
  /\ y_rep.y[2] = 1

\* C21: cost_function(num_failures, n) returns 1000*n + 1500*max(0,
\* num_failures - n); in particular cost_function(0,1) = cost_function(1,1) =
\* 1000 and cost_function(3,2) = 3500.
C21_CostFunctionValue ==
  cpc = "returned" =>
    /\ cost = 1000 * n_prepaid
              + 1500 * (IF num_failures > n_prepaid THEN num_failures - n_prepaid
                        ELSE 0)
    /\ (num_failures = 0 /\ n_prepaid = 1) => cost = 1000
    /\ (num_failures = 1 /\ n_prepaid = 1) => cost = 1000
    /\ (num_failures = 3 /\ n_prepaid = 2) => cost = 3500

\* the third case of the unit test
C21_Witness ==
  /\ cpc = "returned"
  /\ num_failures = 3
  /\ n_prepaid = 2
  /\ cost = 3500

\* the labels hold a yes and a no
BothKinds(lab) == CountLabel(lab, 0) > 0 /\ CountLabel(lab, 1) > 0

\* C22: choose_next_index never returns a document that has already been
\* read: whatever labels it reads, in the random branch and in the Thompson
\* branch, the index it returns is unlabeled in those labels.
C22_NeverReturnsReadDocument ==
  (last_choice.branch # "none" /\ last_choice.status = "ok") =>
    last_choice.seen[last_choice.result] = NanLabel

\* some click of the session so far recorded the label v
Clicked(v) ==
  \E i \in Instances :
    Live(i) /\ \E p \in DOMAIN recs[i].label_history : recs[i].label_history[p] = v

\* C23: choose_next_index takes the Thompson branch (fits the model) exactly
\* when the labels it reads hold at least one 1 and one 0, and otherwise picks
\* among the unlabeled documents without running the model; from an
\* all-unlabeled start the model never runs before a yes and a no click.
C23_ThompsonOnlyWithBothLabels ==
  /\ [](last_choice.branch # "none" =>
          /\ last_choice.branch = "thompson" <=> BothKinds(last_choice.seen)
          /\ (last_choice.branch = "random" /\ last_choice.status = "ok") =>
                last_choice.result \in Unlabeled(last_choice.seen))
  /\ [](fits > 0 => (Clicked(1) /\ Clicked(0)))
  /\ [][((fits' # fits) =>
            (fits' = fits + 1 /\ last_choice'.branch = "thompson"))
         /\ ((last_choice' # last_choice /\ last_choice'.branch = "random") =>
            (fits' = fits))]_vars

\* the model has run once, after a yes on one document and a no on another,
\* and an earlier choice in the same session was random
C23_Witness ==
  /\ fits = 1
  /\ clicks = 2
  /\ last_choice.branch = "thompson"
  /\ Clicked(1)
  /\ Clicked(0)
  /\ Cardinality(Unlabeled(labels)) = 1

\* C24: a click on the yes (no) button sets labels[next_index] to 1 (0) for
\* the displayed document, appends that index to _index_history and the label
\* to _label_history, and only then chooses the next document: the choice made
\* by the click reads the labels with the new label in them.
C24_ClickRecordsThenChooses ==
  [][(clicks' # clicks) =>
       \E i \in Instances, v \in {0, 1} :
         /\ Live(i)
         /\ labels' = [labels EXCEPT ![recs[i].next_index] = v]
         /\ recs'[i].index_history =
              Append(recs[i].index_history, recs[i].next_index)
         /\ recs'[i].label_history = Append(recs[i].label_history, v)
         /\ last_choice'.seen = labels'
         /\ last_choice'.seen[recs[i].next_index] = v]_vars

\* after a no click on the first document shown, the next choice has read
\* that label
C24_Witness ==
  /\ clicks = 1
  /\ \E i \in Instances :
       /\ Live(i)
       /\ recs[i].label_history = <<0>>
       /\ labels[recs[i].index_history[1]] = 0
       /\ last_choice.seen[recs[i].index_history[1]] = 0
       /\ last_choice.status = "ok"
       /\ recs[i].next_index = last_choice.result

\* yes labels among the first k entries of a label history
YesAmong(h, k) == Cardinality({p \in 1..k : h[p] = 1})

\* C25: the cumulative regret plotted for round k equals k - l, l being the
\* number of yes labels among the first k entries of _label_history; the
\* curve never decreases and never exceeds k.
C25_RegretIsRoundsMinusYes ==
  \A i \in Instances :
    Live(i) =>
      LET h == recs[i].label_history
          rg == Regret(h)
      IN /\ Len(rg) = Len(h)
         /\ \A k \in 1..Len(h) :
              /\ rg[k] = k - YesAmong(h, k)
              /\ rg[k] <= WorstRegret(h)[k]
              /\ rg[k] <= k
              /\ k > 1 => rg[k - 1] <= rg[k]

\* three rounds, a yes then two noes: the curve is 0, 1, 2
C25_Witness ==
  \E i \in Instances :
    /\ Live(i)
    /\ recs[i].label_history = <<1, 0, 0>>
    /\ Regret(recs[i].label_history) = <<0, 1, 2>>

\* C26: in the Thompson branch, with at least one unlabeled document, the
\* index returned is an unlabeled document whose estimated reward is the
\* largest among the unlabeled documents, whatever the estimated rewards are
\* (rewards at or below -1000 included).
C26_ThompsonPicksBestUnlabeled ==
  (last_choice.branch = "thompson" /\ Unlabeled(last_choice.seen) # {}) =>
    /\ last_choice.result \in Unlabeled(last_choice.seen)
    /\ \A e \in Unlabeled(last_choice.seen) :
         last_choice.rewards[e] <= last_choice.rewards[last_choice.result]

\* the parameters stored at position i of every column of the traces
DrawOfIndex(i) == [f \in DOMAIN traces |-> traces[f][i + 1]]

\* the states a random source can be in when the noise is sampled
NoiseSources == [seed : Seeds, pos : 0..(RngPeriod - 1)]

\* C27: every replicated dataset of a posterior predictive check comes from
\* exactly one parameter draw: beta, intercept, sigma (and nu for the t model)
\* are all the values stored at the one index i chosen for the pass.
C27_OneDrawPerDataset ==
  (engine = "numpy" /\ Regression(family) /\ y_rep.status = "dataset") =>
    /\ y_rep.i \in 0..(TraceLen(traces) - 1)
    /\ \E r \in NoiseSources :
         LET out == IF family = "normal"
                    THEN ReplicateNormal(DrawOfIndex(y_rep.i), X_test, K, Y_test, r)
                    ELSE ReplicateStudentT(DrawOfIndex(y_rep.i), X_test, K, Y_test, r)
         IN out.status = "dataset" /\ out.y = y_rep.y

\* a t-model dataset made from the second of two draws that differ in every
\* parameter, with noise that shows in the data
C27_Witness ==
  /\ family = "student_t"
  /\ engine = "numpy"
  /\ y_rep.status = "dataset"
  /\ y_rep.i = 1
  /\ traces.sigma[1] # traces.sigma[2]
  /\ traces.nu[1] # traces.nu[2]
  /\ traces.beta[1] # traces.beta[2]
  /\ traces.intercept[1] # traces.intercept[2]
  /\ Len(y_rep.y) > 0
  /\ y_rep.y[1] # LinearPredictor(DrawOfIndex(1), 1)

\* entries of a label history equal to v
CountIn(h, v) == Cardinality({p \in 1..Len(h) : h[p] = v})

\* i is the only Recommenderizer constructed so far
OnlyInstance(i) == Live(i) /\ \A o \in Instances \ {i} : ~Live(o)

\* C28: with labels all unlabeled at the start and one Recommenderizer, after
\* any sequence of clicks the two histories have the same length, that length
\* is the number of labeled entries of labels, and the 1s (0s) of
\* _label_history are as many as the entries of labels equal to 1 (0), which
\* is what the counter shows.
C28_HistoriesMatchLabels ==
  \A i \in Instances :
    OnlyInstance(i) =>
      LET ih == recs[i].index_history
          lh == recs[i].label_history
      IN /\ Len(ih) = Len(lh)
         /\ Len(lh) = Cardinality(Docs(labels) \ Unlabeled(labels))
         /\ CountIn(lh, 1) = CountLabel(labels, 1)
         /\ CountIn(lh, 0) = CountLabel(labels, 0)
         /\ recs[i].counter = Counter(labels)

\* the entries of labels that a step changes
ChangedEntries == {d \in Docs(labels) : labels'[d] # labels[d]}

\* a step keeps every entry that the histories already hold
HistoriesKept ==
  \A o \in Instances :
    Live(o) =>
      /\ SubSeq(recs'[o].index_history, 1, Len(recs[o].index_history))
           = recs[o].index_history
      /\ SubSeq(recs'[o].label_history, 1, Len(recs[o].label_history))
           = recs[o].label_history

\* C29: a yes or no click changes exactly one entry of labels, the entry at
\* the next_index displayed when the click happened, and leaves every other
\* entry of labels and every earlier entry of the two histories unchanged;
\* entries of labels only ever hold NaN, 0 or 1.
C29_ClickChangesOneEntry ==
  /\ [](\A d \in Docs(labels) : labels[d] \in {NanLabel, 0, 1})
  /\ [][(clicks' # clicks) =>
         (/\ \E i \in Instances :
                Live(i) /\ ChangedEntries = {recs[i].next_index}
          /\ HistoriesKept)]_vars

\* the step is a click on a button of instance i
ClickOn(i) ==
  /\ Live(i)
  /\ clicks' = clicks + 1
  /\ Len(recs'[i].label_history) = Len(recs[i].label_history) + 1

\* C30: with two Recommenderizer instances sharing labels and their clicks
\* interleaving in any order, every click labels a document that was
\* unlabeled just before the click: no document is labeled twice and no
\* recorded label is overwritten by the other instance.
C30_InterleavedClicksLabelUnread ==
  [][\A i \in Instances :
       (ClickOn(i) /\ \A o \in Instances : Live(o)) =>
         labels[recs[i].next_index] = NanLabel]_vars

====
